---------------------------- MODULE Spec2Model ----------------------------
(***************************************************************************)
(* A model of the Tweet class (ts/tweet.ts) of the RunKeeper tweet         *)
(* analyser: the text normaliser, the category classifier, the detector of *)
(* user-written text and the activity/distance extractor; and of the live  *)
(* search over the user-written tweets (js/descriptions.js), which renders *)
(* its matches with Tweet.getHTMLTableRow.                                 *)
(*                                                                         *)
(* A JavaScript string is modelled as a sequence of one-character strings, *)
(* so that trimming, searching, regular expressions and word boundaries    *)
(* are computed character by character as the engine computes them.        *)
(***************************************************************************)
EXTENDS Integers, Sequences, FiniteSets

VARIABLES
    tweet_text,   \* the constructor's argument (a string, or Null)
    text,         \* Tweet.text, the private field set by the constructor
    call,         \* the getter or helper last called on the Tweet ("new": none yet)
    retString,    \* what that call returned, by the type of its result: a string,
    retBoolean,   \* a boolean,
    retNumber,    \* a number (an exact rational, num/den)
    RUNKEEPER_TWEETS, \* window.RUNKEEPER_TWEETS: the texts of the tweets of the feed
    userWritten,  \* descriptions.js: the Tweets (their text) that are written
    listener,     \* the "input" listener of #textFilter is registered
    input,        \* #textFilter: input.value
    countEl,      \* #searchCount: textContent
    textEl,       \* #searchText: textContent
    tbody,        \* #tweetTable: innerHTML
    searched      \* the last input event of #textFilter was handled by search

\* the page of descriptions.js
page == <<RUNKEEPER_TWEETS, userWritten, listener, input, countEl, textEl, tbody, searched>>

vars == <<tweet_text, text, call, retString, retBoolean, retNumber,
          RUNKEEPER_TWEETS, userWritten, listener, input, countEl, textEl, tbody, searched>>

(***************************************************************************)
(* Characters and character classes of the regular expression engine.      *)
(***************************************************************************)
UpperCase == <<"A","B","C","D","E","F","G","H","I","J","K","L","M","N","O","P","Q","R","S","T","U","V","W","X","Y","Z">>
LowerCase == <<"a","b","c","d","e","f","g","h","i","j","k","l","m","n","o","p","q","r","s","t","u","v","w","x","y","z">>
Digits == <<"0","1","2","3","4","5","6","7","8","9">>

Range(s) == {s[i] : i \in 1..Len(s)}

SpaceChars == {" ", "\t", "\n"}
DigitChars == Range(Digits)
UpperChars == Range(UpperCase)
LowerAlnumChars == Range(LowerCase) \cup Range(Digits)
WordChars == Range(UpperCase) \cup Range(LowerCase) \cup Range(Digits) \cup {"_"}
LowerOf == [c \in UpperChars |-> LowerCase[CHOOSE i \in 1..Len(UpperCase) : UpperCase[i] = c]]

\* \s : the white space of the modelled alphabet
IsSpace(c) == c \in SpaceChars

\* \d
IsDigit(c) == c \in DigitChars

\* \w : [A-Za-z0-9_]
IsWordChar(c) == c \in WordChars

\* [a-z0-9], the class whose complement written() deletes
IsLowerAlnum(c) == c \in LowerAlnumChars

\* String.prototype.toLowerCase, on one character and on a string
LowerChar(c) == IF c \in UpperChars THEN LowerOf[c] ELSE c

toLowerCase(s) == [i \in 1..Len(s) |-> LowerChar(s[i])]

\* the undefined/null argument of the constructor: no character sequence
Null == <<"null">>

\* Body(x) for x the value of e, which is computed once (a LET definition
\* is computed anew wherever it is used)
With(e, Body(_)) == CHOOSE y \in {Body(x) : x \in {e}} : TRUE

(***************************************************************************)
(* String primitives.                                                      *)
(***************************************************************************)
\* the literal w occurs in s at position i (1-based)
MatchAt(s, i, w) ==
    /\ i >= 1
    /\ i + Len(w) - 1 <= Len(s)
    /\ \A k \in 1..Len(w) : s[i + k - 1] = w[k]

\* the same, ignoring case (the i flag)
MatchAtCI(s, i, w) ==
    /\ i >= 1
    /\ i + Len(w) - 1 <= Len(s)
    /\ \A k \in 1..Len(w) : LowerChar(s[i + k - 1]) = LowerChar(w[k])

\* String.prototype.startsWith
startsWith(s, w) == MatchAt(s, 1, w)

\* String.prototype.includes
includes(s, w) == \E i \in 1..Len(s) : MatchAt(s, i, w)

\* String.prototype.trim
trimOf(s) ==
    LET keep == {i \in 1..Len(s) : ~IsSpace(s[i])}
    IN  IF keep = {} THEN <<>>
        ELSE LET lo == CHOOSE i \in keep : \A j \in keep : i <= j
                 hi == CHOOSE i \in keep : \A j \in keep : j <= i
             IN  SubSeq(s, lo, hi)

trim(str) == With(str, trimOf)

\* \b between s[p-1] and s[p]: exactly one side is a word character
Boundary(s, p) ==
    LET before == p - 1 >= 1 /\ p - 1 <= Len(s) /\ IsWordChar(s[p - 1])
        after  == p >= 1 /\ p <= Len(s) /\ IsWordChar(s[p])
    IN  before # after

\* the length of the longest run of characters of class C(_) starting at i
RunLen(s, i, C(_)) ==
    LET stop == {j \in i..Len(s) : ~C(s[j])}
    IN  IF stop = {} THEN Len(s) - i + 1
        ELSE (CHOOSE j \in stop : \A k \in stop : j <= k) - i

\* String.prototype.replace with a global pattern: M(s, i) is the length of
\* the pattern's match at i (0: none; no pattern here matches the empty
\* string); matches are taken leftmost first and do not overlap.  R[i] is the
\* result for the rest of s from i on: what precedes the next match is kept
replaceFrom(s, M(_, _), rep) ==
    LET R[i \in 1..(Len(s) + 1)] ==
            LET hits == {p \in i..Len(s) : M(s, p) > 0}
            IN  IF hits = {} THEN SubSeq(s, i, Len(s))
                ELSE LET p == CHOOSE q \in hits : \A r \in hits : q <= r
                     IN  SubSeq(s, i, p - 1) \o rep \o R[p + M(s, p)]
    IN  R[1]

replaceAll(str, M(_, _), rep) == With(str, LAMBDA s : replaceFrom(s, M, rep))

(***************************************************************************)
(* The constructor (tweet.ts 18-21): text = (tweet_text ?? "").trim().     *)
(***************************************************************************)
TweetConstructor(arg) == trim(IF arg = Null THEN <<>> ELSE arg)

(***************************************************************************)
(* stripped() (tweet.ts 29-39).                                            *)
(***************************************************************************)
\* /#Runkeeper/gi and /#RunKeeper/gi
HashtagLen(s, i) == IF MatchAtCI(s, i, <<"#","R","u","n","k","e","e","p","e","r">>) THEN 10 ELSE 0
HashtagLen2(s, i) == IF MatchAtCI(s, i, <<"#","R","u","n","K","e","e","p","e","r">>) THEN 10 ELSE 0

\* /https?:\/\/\S+/ : the length of its match at i
UrlLen(s, i) ==
    IF ~MatchAt(s, i, <<"h","t","t","p">>) THEN 0
    ELSE LET j == IF MatchAt(s, i + 4, <<"s">>) THEN i + 5 ELSE i + 4
             n == RunLen(s, j + 3, LAMBDA c : ~IsSpace(c))
         IN  IF MatchAt(s, j, <<":","/","/">>) /\ n >= 1 THEN (j + 3 + n) - i ELSE 0

\* /via @?runkeeper/gi
ViaLen(s, i) ==
    IF ~MatchAtCI(s, i, <<"v","i","a"," ">>) THEN 0
    ELSE LET j == IF MatchAt(s, i + 4, <<"@">>) THEN i + 5 ELSE i + 4
         IN  IF MatchAtCI(s, j, <<"r","u","n","k","e","e","p","e","r">>) THEN (j + 9) - i ELSE 0

\* /\s+/g
SpacesLen(s, i) == RunLen(s, i, IsSpace)

\* .replace(/^"|"$/g, ""): a quote at the very start and a quote at the very
\* end are deleted (a lone quote is both, and is deleted once)
stripQuotesOf(s) ==
    LET a == IF Len(s) >= 1 /\ s[1] = "\"" THEN Tail(s) ELSE s
    IN  IF Len(a) >= 1 /\ a[Len(a)] = "\"" THEN SubSeq(a, 1, Len(a) - 1) ELSE a

stripQuotes(str) == With(str, stripQuotesOf)

stripped(t) ==
    LET s1 == replaceAll(t, HashtagLen, <<>>)
        s2 == replaceAll(s1, HashtagLen2, <<>>)
        s3 == replaceAll(s2, UrlLen, <<>>)
        s4 == trim(replaceAll(s3, ViaLen, <<>>))
        s5 == replaceAll(s4, SpacesLen, <<" ">>)
    IN  trim(stripQuotes(s5))

(***************************************************************************)
(* get source (tweet.ts 43-69).                                            *)
(***************************************************************************)
LiveVerbs == {<<"r","u","n","n","i","n","g">>, <<"b","i","k","i","n","g">>, <<"w","a","l","k","i","n","g">>, <<"s","k","i","i","n","g">>, <<"s","w","i","m","m","i","n","g">>}

\* /\bis (running|biking|walking|skiing|swimming)\b/.test(t)
isLiveVerb(t) ==
    \E i \in 1..Len(t) :
        /\ Boundary(t, i)
        /\ MatchAt(t, i, <<"i","s"," ">>)
        /\ \E v \in LiveVerbs : MatchAt(t, i + 3, v) /\ Boundary(t, i + 3 + Len(v))

looksCompleted(t) ==
    \/ startsWith(t, <<"j","u","s","t"," ","c","o","m","p","l","e","t","e","d">>)
    \/ startsWith(t, <<"i"," ","j","u","s","t"," ">>)
    \/ includes(t, <<" ","c","o","m","p","l","e","t","e","d"," ","a"," ">>)
    \/ includes(t, <<" ","c","o","m","p","l","e","t","e","d"," ","a","n"," ">>)

looksLive(t) == startsWith(t, <<"j","u","s","t"," ","p","o","s","t","e","d">>) \/ isLiveVerb(t)

looksAchievement(t) ==
    \/ includes(t, <<"n","e","w"," ","p","e","r","s","o","n","a","l"," ","r","e","c","o","r","d">>)
    \/ includes(t, <<"p","r","!">>)
    \/ includes(t, <<"a","c","h","i","e","v","e","d">>)
    \/ includes(t, <<"s","e","t"," ","a"," ","g","o","a","l">>)
    \/ includes(t, <<"a","c","h","i","e","v","e","m","e","n","t">>)

\* faulty variants of category: the live rule tried first; no final return
categoryLiveFirst(t) ==
    IF looksLive(t) THEN <<"l","i","v","e","_","e","v","e","n","t">>
    ELSE IF looksCompleted(t) THEN <<"c","o","m","p","l","e","t","e","d","_","e","v","e","n","t">>
    ELSE IF looksAchievement(t) THEN <<"a","c","h","i","e","v","e","m","e","n","t">>
    ELSE <<"m","i","s","c","e","l","l","a","n","e","o","u","s">>

categoryNoDefault(t) ==
    IF looksCompleted(t) THEN <<"c","o","m","p","l","e","t","e","d","_","e","v","e","n","t">>
    ELSE IF looksLive(t) THEN <<"l","i","v","e","_","e","v","e","n","t">>
    ELSE IF looksAchievement(t) THEN <<"a","c","h","i","e","v","e","m","e","n","t">>
    ELSE <<"u","n","d","e","f","i","n","e","d">>

category(t) ==
    IF looksCompleted(t) THEN <<"c","o","m","p","l","e","t","e","d","_","e","v","e","n","t">>
    ELSE IF looksLive(t) THEN <<"l","i","v","e","_","e","v","e","n","t">>
    ELSE IF looksAchievement(t) THEN <<"a","c","h","i","e","v","e","m","e","n","t">>
    ELSE <<"m","i","s","c","e","l","l","a","n","e","o","u","s">>

source(txt) == With(toLowerCase(txt), category)

(***************************************************************************)
(* get written and get writtenText (tweet.ts 72-95).                       *)
(***************************************************************************)
templates == <<
    <<"j","u","s","t"," ","c","o","m","p","l","e","t","e","d">>, <<"j","u","s","t"," ","p","o","s","t","e","d">>, <<"a","c","t","i","v","i","t","y">>, <<"w","o","r","k","o","u","t">>,
    <<"w","i","t","h"," ","r","u","n","k","e","e","p","e","r">>, <<"c","h","e","c","k"," ","i","t"," ","o","u","t">>, <<"d","i","s","t","a","n","c","e">>, <<"t","i","m","e">>, <<"p","a","c","e">>,
    <<"c","o","m","p","l","e","t","e","d"," ","a">>, <<"c","o","m","p","l","e","t","e","d"," ","a","n">>, <<"p","o","s","t","e","d"," ","a">>, <<"p","o","s","t","e","d"," ","a","n">>,
    <<"r","u","n">>, <<"w","a","l","k">>, <<"b","i","k","e">>, <<"r","i","d","e">>, <<"s","w","i","m">>, <<"h","i","k","e">>, <<"e","l","l","i","p","t","i","c","a","l">> >>

\* new RegExp("\\b" + w + "\\b") : the length of its match at i
WordLen(s, i, w) ==
    IF Boundary(s, i) /\ MatchAt(s, i, w) /\ Boundary(s, i + Len(w)) THEN Len(w) ELSE 0

\* String.prototype.replace with a pattern that is not global: the first match
firstOnly(s, M(_, _), rep) ==
    LET hits == {p \in 1..Len(s) : M(s, p) > 0}
    IN  IF hits = {} THEN s
        ELSE LET p == CHOOSE q \in hits : \A r \in hits : q <= r
             IN  SubSeq(s, 1, p - 1) \o rep \o SubSeq(s, p + M(s, p), Len(s))

\* faulty variant of removeTemplates: the g flag forgotten
removeTemplatesOnce(str) ==
    LET F[k \in 0..Len(templates), s \in Seq(STRING)] ==
            IF k = Len(templates) THEN s
            ELSE F[k + 1, firstOnly(s, LAMBDA x, i : WordLen(x, i, templates[k + 1]), <<" ">>)]
    IN  F[0, str]

\* for (const w of templates) s = s.replace(new RegExp("\\b" + w + "\\b", "g"), " ")
\* F[k, s] is the value of s after the loop, s being its value after k rounds
removeTemplates(str) ==
    LET F[k \in 0..Len(templates), s \in Seq(STRING)] ==
            IF k = Len(templates) THEN s
            ELSE F[k + 1, replaceFrom(s, LAMBDA x, i : WordLen(x, i, templates[k + 1]), <<" ">>)]
    IN  F[0, str]

\* s.replace(/[^a-z0-9]/g, "")
letters(s) == SelectSeq(s, IsLowerAlnum)

\* the least number of alphanumerics that make a text user-written
WrittenThreshold == 3

\* faulty variant of written: more than the threshold is asked for
writtenMoreThan(txt) ==
    LET s0 == toLowerCase(stripped(txt))
        s1 == removeTemplates(s0)
        s2 == trim(replaceAll(s1, SpacesLen, <<" ">>))
    IN  Len(letters(s2)) > WrittenThreshold

written(txt) ==
    LET s0 == toLowerCase(stripped(txt))
        s1 == removeTemplates(s0)
        s2 == trim(replaceAll(s1, SpacesLen, <<" ">>))
    IN  Len(letters(s2)) >= WrittenThreshold

writtenText(txt) == IF written(txt) THEN stripped(txt) ELSE <<>>

(***************************************************************************)
(* get activityType (tweet.ts 98-122).                                     *)
(***************************************************************************)
unknown == <<"u","n","k","n","o","w","n">>

\* the alias table, in the order of its keys
map == <<
    [label |-> <<"r","u","n","n","i","n","g">>,    aliases |-> << <<"r","u","n">>, <<"j","o","g">>, <<"j","o","g","g","i","n","g">> >>],
    [label |-> <<"w","a","l","k","i","n","g">>,    aliases |-> << <<"w","a","l","k">>, <<"h","i","k","e">>, <<"h","i","k","i","n","g">> >>],
    [label |-> <<"c","y","c","l","i","n","g">>,    aliases |-> << <<"b","i","k","e">>, <<"b","i","k","e","d">>, <<"b","i","k","i","n","g">>, <<"r","i","d","e">>, <<"r","o","d","e">>, <<"c","y","c","l","i","n","g">> >>],
    [label |-> <<"s","w","i","m","m","i","n","g">>,   aliases |-> << <<"s","w","i","m">>, <<"s","w","a","m">>, <<"s","w","i","m","m","i","n","g">> >>],
    [label |-> <<"e","l","l","i","p","t","i","c","a","l">>, aliases |-> << <<"e","l","l","i","p","t","i","c","a","l">> >>],
    [label |-> <<"r","o","w","i","n","g">>,     aliases |-> << <<"r","o","w">>, <<"r","o","w","i","n","g">> >>],
    [label |-> <<"y","o","g","a">>,       aliases |-> << <<"y","o","g","a">> >> ] >>

\* new RegExp(`\\b${a}\\b`).test(t)
testWord(t, a) == \E i \in 1..Len(t) : WordLen(t, i, a) > 0

\* t.match(/completed (?:a|an) (\w+)/) tried at i: the captured word, or <<>>
\* when the pattern does not match there
fallbackAt(t, i) ==
    LET j == IF MatchAt(t, i, <<"c","o","m","p","l","e","t","e","d"," ","a"," ">>) THEN i + 12
             ELSE IF MatchAt(t, i, <<"c","o","m","p","l","e","t","e","d"," ","a","n"," ">>) THEN i + 13
             ELSE 0
        n == IF j = 0 THEN 0 ELSE RunLen(t, j, IsWordChar)
    IN  IF n >= 1 THEN SubSeq(t, j, j + n - 1) ELSE <<>>

\* the first match of the fallback pattern: m[1], or unknown
fallback(t) ==
    LET hits == {i \in 1..Len(t) : fallbackAt(t, i) # <<>>}
    IN  IF hits = {} THEN unknown
        ELSE fallbackAt(t, CHOOSE i \in hits : \A j \in hits : i <= j)

\* faulty variants of lookup: the alias found is returned, not its label; the label
\* of the alias that stands first in the text is returned
lookupAlias(t) ==
    LET F[k \in 1..(Len(map) + 1)] ==
            IF k > Len(map) THEN fallback(t)
            ELSE IF \E a \in 1..Len(map[k].aliases) : testWord(t, map[k].aliases[a])
                 THEN LET al == map[k].aliases
                      IN  al[CHOOSE a \in 1..Len(al) :
                                /\ testWord(t, al[a])
                                /\ \A b \in 1..(a - 1) : ~testWord(t, al[b])]
                 ELSE F[k + 1]
    IN  F[1]

lookupFirstInText(t) ==
    LET hits == {<<i, k>> \in (1..Len(t)) \X (1..Len(map)) :
                    \E a \in 1..Len(map[k].aliases) : WordLen(t, i, map[k].aliases[a]) > 0}
    IN  IF hits = {} THEN fallback(t)
        ELSE map[(CHOOSE h \in hits : \A g \in hits : h[1] <= g[1])[2]].label

\* the nested loops over the labels and their aliases, from label k on
lookup(t) ==
    LET F[k \in 1..(Len(map) + 1)] ==
            IF k > Len(map) THEN fallback(t)
            ELSE IF \E a \in 1..Len(map[k].aliases) : testWord(t, map[k].aliases[a])
                 THEN map[k].label
                 ELSE F[k + 1]
    IN  F[1]

\* faulty variant of activityType: no test of the category
activityTypeOfAny(txt) == With(toLowerCase(txt), lookup)

activityType(txt) ==
    IF source(txt) # <<"c","o","m","p","l","e","t","e","d","_","e","v","e","n","t">> THEN unknown
    ELSE With(toLowerCase(txt), lookup)

(***************************************************************************)
(* get distance (tweet.ts 124-141).  A number is the exact rational        *)
(* num/den; the floating point rounding of the division is not modelled.   *)
(***************************************************************************)
Rat(n, d) == [num |-> n, den |-> d]

DigitVal(c) == (CHOOSE i \in 1..Len(Digits) : Digits[i] = c) - 1

\* the value of a string of decimal digits
ToInt(ds) ==
    LET F[k \in 0..Len(ds)] == IF k = 0 THEN 0 ELSE 10 * F[k - 1] + DigitVal(ds[k])
    IN  F[Len(ds)]

Pow10(n) ==
    LET F[k \in 0..n] == IF k = 0 THEN 1 ELSE 10 * F[k - 1]
    IN  F[n]

\* /(\d+(?:\.\d+)?)\s*(u1|u2|...)\b/ tried at i: [ok, num, den], where
\* num/den is parseFloat(m[1]).  Greedy \d+, (?:\.\d+)? and \s* never help by
\* giving characters back: what follows would have to start with one of them.
numberUnitAt(t, i, units) ==
    LET n1 == RunLen(t, i, IsDigit)
        p  == i + n1
        n2 == IF MatchAt(t, p, <<".">>) THEN RunLen(t, p + 1, IsDigit) ELSE 0
        q  == IF n2 >= 1 THEN p + 1 + n2 ELSE p
        r  == q + RunLen(t, q, IsSpace)
        ok == /\ n1 >= 1
              /\ \E u \in units : MatchAt(t, r, u) /\ Boundary(t, r + Len(u))
    IN  IF ~ok THEN [ok |-> FALSE, num |-> 0, den |-> 1]
        ELSE IF n2 >= 1
        THEN [ok |-> TRUE,
              num |-> ToInt(SubSeq(t, i, p - 1)) * Pow10(n2) + ToInt(SubSeq(t, p + 1, p + n2)),
              den |-> Pow10(n2)]
        ELSE [ok |-> TRUE, num |-> ToInt(SubSeq(t, i, p - 1)), den |-> 1]

\* t.match(...) : the leftmost match
numberUnit(t, units) ==
    LET hits == {i \in 1..Len(t) : numberUnitAt(t, i, units).ok}
    IN  IF hits = {} THEN [ok |-> FALSE, num |-> 0, den |-> 1]
        ELSE numberUnitAt(t, CHOOSE i \in hits : \A j \in hits : i <= j, units)

MileUnits == {<<"m","i">>, <<"m","i","l","e">>, <<"m","i","l","e","s">>}
KmUnits == {<<"k","m">>, <<"k","i","l","o","m","e","t","e","r">>, <<"k","i","l","o","m","e","t","e","r","s">>}

\* 1 mi = 1.609 km, as thousandths
KmPerMileMilli == 1609

\* faulty variants of miles: kilometres tried first; kilometres times 1.609
milesKmFirst(t) ==
    LET mi == numberUnit(t, MileUnits)
        km == numberUnit(t, KmUnits)
    IN  IF km.ok THEN Rat(km.num * 1000, km.den * KmPerMileMilli)
        ELSE IF mi.ok THEN Rat(mi.num, mi.den)
        ELSE Rat(0, 1)

milesTimes(t) ==
    LET mi == numberUnit(t, MileUnits)
        km == numberUnit(t, KmUnits)
    IN  IF mi.ok THEN Rat(mi.num, mi.den)
        ELSE IF km.ok THEN Rat(km.num * KmPerMileMilli, km.den * 1000)
        ELSE Rat(0, 1)

miles(t) ==
    LET mi == numberUnit(t, MileUnits)
        km == numberUnit(t, KmUnits)
    IN  IF mi.ok THEN Rat(mi.num, mi.den)
        ELSE IF km.ok THEN Rat(km.num * 1000, km.den * KmPerMileMilli)
        ELSE Rat(0, 1)

\* faulty variant of distance: no test of the category
distanceOfAny(txt) == With(toLowerCase(txt), miles)

distance(txt) ==
    IF source(txt) # <<"c","o","m","p","l","e","t","e","d","_","e","v","e","n","t">> THEN Rat(0, 1)
    ELSE With(toLowerCase(txt), miles)

(***************************************************************************)
(* getHTMLTableRow (tweet.ts 144-161) and firstLink (24-27).               *)
(***************************************************************************)
\* this.text.match(/https?:\/\/\S+/): m[0], or Null
firstLink(txt) ==
    LET hits == {p \in 1..Len(txt) : UrlLen(txt, p) > 0}
    IN  IF hits = {} THEN Null
        ELSE LET p == CHOOSE q \in hits : \A r \in hits : q <= r
             IN  SubSeq(txt, p, p + UrlLen(txt, p) - 1)

\* the decimal numeral of a natural number: `${num}`, String(n)
NumberToString(n) ==
    LET F[k \in 0..n] == IF k < 10 THEN <<Digits[k + 1]>>
                         ELSE F[k \div 10] \o <<Digits[(k % 10) + 1]>>
    IN  F[n]

\* const snippet = this.written ? this.writtenText : this.stripped()
snippet(txt) == IF written(txt) THEN writtenText(txt) ELSE stripped(txt)

\* link ? `${snippet} <a href="${link}" ...>link</a>` : snippet
linkedSnippet(txt) ==
    IF firstLink(txt) = Null THEN snippet(txt)
    ELSE snippet(txt) \o <<" ","<","a"," ","h","r","e","f","=","\"">> \o firstLink(txt)
            \o <<"\""," ","t","a","r","g","e","t","=","\"","_","b","l","a","n","k","\""," ","r","e","l","=","\"","n","o","o","p","e","n","e","r","\"",">","l","i","n","k","<","/","a",">">>

\* the template literal of the row
rowTemplate(num, act, cell) ==
    <<"\n"," "," "," "," "," "," ","<","t","r",">","\n"," "," "," "," "," "," "," "," ","<","t","d",">">> \o NumberToString(num)
        \o <<"<","/","t","d",">","\n"," "," "," "," "," "," "," "," ","<","t","d",">">> \o act
        \o <<"<","/","t","d",">","\n"," "," "," "," "," "," "," "," ","<","t","d",">">> \o cell
        \o <<"<","/","t","d",">","\n"," "," "," "," "," "," ","<","/","t","r",">","\n"," "," "," "," ">>

\* faulty variant of getHTMLTableRow: the row number is the index
getHTMLTableRowZeroBased(txt, rowNumber) ==
    rowTemplate(rowNumber, activityType(txt), linkedSnippet(txt))

getHTMLTableRow(txt, rowNumber) ==
    rowTemplate(rowNumber + 1, activityType(txt), linkedSnippet(txt))

(***************************************************************************)
(* The input texts: every concatenation of a start and at most n fragments *)
(* of a vocabulary chosen for the getters under study.                     *)
(***************************************************************************)
Bodies(frags, n) ==
    LET B[k \in 0..n] ==
            IF k = 0 THEN {<<>>}
            ELSE B[k - 1] \cup {b \o f : b \in B[k - 1], f \in frags}
    IN  B[n]

Texts(starts, frags, n) == {p \o b : p \in starts, b \in Bodies(frags, n)}

\* C1, C9: the phrases the classifier looks for, in any order
MaxClassifyFrags == 2

ClassifyStarts == {<<>>, <<"J","u","s","t"," ","c","o","m","p","l","e","t","e","d"," ">>, <<"c","o","m","p","l","e","t","e","d"," ","a","n"," ">>, <<"H","e"," ","i","s"," ","r","u","n","n","i","n","g"," ","a","n","d">>}

ClassifyFrags == {
    <<"j","u","s","t"," ","c","o","m","p","l","e","t","e","d">>, <<" ","c","o","m","p","l","e","t","e","d"," ","a"," ">>, <<"c","o","m","p","l","e","t","e","d"," ","a">>, <<" ">>,
    <<"i","s"," ","r","u","n","n","i","n","g">>, <<"I","s"," ","B","i","k","i","n","g">>, <<"I"," ","j","u","s","t"," ">>, <<"j","u","s","t"," ","p","o","s","t","e","d">>,
    <<"P","R","!">>, <<"a","c","h","i","e","v","e","d">>, <<"x">> }

ClassifyInputs == Texts(ClassifyStarts, ClassifyFrags, MaxClassifyFrags) \cup {Null}

\* C2, C10: numbers and units of distance after a completed or a bare start
MaxDistanceFrags == 2

DistanceStarts == {
    <<"c","o","m","p","l","e","t","e","d"," ","a"," ","1","0">>, <<"c","o","m","p","l","e","t","e","d"," ","a"," ","3">>, <<"J","u","s","t"," ","c","o","m","p","l","e","t","e","d"," ","a"," ","1","0">>, <<"J","u","s","t"," ","c","o","m","p","l","e","t","e","d"," ","a"," ","3">>,
    <<"I"," ","j","u","s","t"," ","r","a","n">>, <<"J","u","s","t"," ","c","o","m","p","l","e","t","e","d"," ","a"," ","1","0"," ","k","m"," ","a","n","d"," ","3">> }

DistanceFrags == {
    <<" ","k","m">>, <<"k","m">>, <<" ","m","i">>, <<"m","i">>, <<"l","e">>, <<"s">>, <<" ","r","u","n">>, <<".","5">>, <<" ","3">>, <<" ","m","i","l","e">> }

DistanceInputs == Texts(DistanceStarts, DistanceFrags, MaxDistanceFrags)

\* C3, C6, C8: activity words after a completed start, after the design's
\* example, and after starts of the three other categories
MaxActivityFrags == 2

ActivityStarts == {
    <<"J","u","s","t"," ","c","o","m","p","l","e","t","e","d"," ","a">>, <<"J","u","s","t"," ","c","o","m","p","l","e","t","e","d"," ","a"," ","5","k"," ","r","u","n"," ","a","n","d"," ","b","i","k","e"," ","r","i","d","e">>, <<"I"," ","j","u","s","t">>,
    <<"I","s"," ","w","a","l","k","i","n","g"," ","3"," ","m","i">>, <<"A","c","h","i","e","v","e","d"," ","5"," ","k","m">>, <<"c","o","m","p","l","e","t","e","d"," ","a"," ","3"," ","m","i","l","e">> }

ActivityFrags == {
    <<" ","r","u","n">>, <<" ","b","i","k","e">>, <<" ","y","o","g","a">>, <<" ","s","w","a","m">>, <<" ","h","i","k","e">>, <<" ","a","n","d">>, <<"s">>, <<" ","5","k">>,
    <<"_">>, <<" ","R","i","d","e">> }

ActivityInputs == Texts(ActivityStarts, ActivityFrags, MaxActivityFrags)

\* C5, C7: template words, separators and a few characters of the user's
MaxWrittenFrags == 2

WrittenStarts == {<<>>, <<"R","u","n">>, <<"J","u","s","t"," ","c","o","m","p","l","e","t","e","d">>, <<"P","o","s","t","e","d"," ","a","n">>}

WrittenFrags == {<<"r","u","n">>, <<"t","i","m","e">>, <<" ">>, <<",">>, <<"_">>, <<"a","b">>, <<"x">>, <<"1">>, <<" ","a">>}

WrittenInputs == Texts(WrittenStarts, WrittenFrags, MaxWrittenFrags)

\* C4: what stripped() deletes, whole and in pieces
MaxNormalizeFrags == 2

NormalizeStarts == {<<>>, <<"J","u","s","t"," ","c","o","m","p","l","e","t","e","d"," ","a"," ","r","u","n"," ">>, <<"\"","N","i","c","e"," ","#","R","u","n">>}

NormalizeFrags == {
    <<"\"">>, <<"#","R","u","n">>, <<"#","R","u","n","K","e","e","p","e","r">>, <<"K","e","e","p","e","r">>, <<" ">>, <<"v","i","a"," ">>, <<"@","r","u","n","k","e","e","p","e","r">>,
    <<"h","t","t","p",":","/","/","t",".","c","o","/","x">>, <<"a">> }

NormalizeInputs == Texts(NormalizeStarts, NormalizeFrags, MaxNormalizeFrags)

\* C11: the feeds of the page and what is typed in its search box
MaxTweets == 2

FeedTexts == {
    <<"J","u","s","t"," ","c","o","m","p","l","e","t","e","d"," ","a"," ","r","u","n"," ","-"," ","s","o"," ","F","U","N"," ","#","R","u","n","k","e","e","p","e","r">>,
    <<"J","u","s","t"," ","p","o","s","t","e","d"," ","a"," ","w","a","l","k">>,
    <<"F","u","n"," ","h","i","k","e"," ","h","t","t","p",":","/","/","t",".","c","o","/","x">>,
    <<"m","y"," ","f","u","n">> }

Feeds == UNION {[1..n -> FeedTexts] : n \in 0..MaxTweets}

Queries == {<<>>, <<" "," ">>, <<"f","u","n">>, <<" ","F","U","N"," ">>, <<"r","u","n">>, <<"z","z">>}


(***************************************************************************)
(* The state machine: a Tweet is constructed from an input text and one of *)
(* its getters is called.  No getter writes a field, so a later call finds *)
(* the Tweet as the constructor left it: every call is explored from there.*)
(***************************************************************************)
\* the page before its script has run: no feed, no listener, the elements empty
InitPage(feed) ==
    /\ RUNKEEPER_TWEETS = feed
    /\ userWritten = <<>>
    /\ listener = FALSE
    /\ input = <<>>
    /\ countEl = <<>>
    /\ textEl = <<>>
    /\ tbody = <<>>
    /\ searched = FALSE

InitFrom(inputs) ==
    /\ InitPage(<<>>)
    /\ tweet_text \in inputs
    /\ text = TweetConstructor(tweet_text)
    /\ call = "new"
    /\ retString = <<>>
    /\ retBoolean = FALSE
    /\ retNumber = Rat(0, 1)

GetStripped ==
    /\ call = "new"
    /\ call' = "stripped"
    /\ retString' = stripped(text)
    /\ UNCHANGED <<tweet_text, text, retBoolean, retNumber>>
    /\ UNCHANGED page

GetSource ==
    /\ call = "new"
    /\ call' = "source"
    /\ retString' = source(text)
    /\ UNCHANGED <<tweet_text, text, retBoolean, retNumber>>
    /\ UNCHANGED page

GetWritten ==
    /\ call = "new"
    /\ call' = "written"
    /\ retBoolean' = written(text)
    /\ UNCHANGED <<tweet_text, text, retString, retNumber>>
    /\ UNCHANGED page

GetWrittenText ==
    /\ call = "new"
    /\ call' = "writtenText"
    /\ retString' = writtenText(text)
    /\ UNCHANGED <<tweet_text, text, retBoolean, retNumber>>
    /\ UNCHANGED page

GetActivityType ==
    /\ call = "new"
    /\ call' = "activityType"
    /\ retString' = activityType(text)
    /\ UNCHANGED <<tweet_text, text, retBoolean, retNumber>>
    /\ UNCHANGED page

GetDistance ==
    /\ call = "new"
    /\ call' = "distance"
    /\ retNumber' = distance(text)
    /\ UNCHANGED <<tweet_text, text, retString, retBoolean>>
    /\ UNCHANGED page

Next ==
    \/ GetStripped
    \/ GetSource
    \/ GetWritten
    \/ GetWrittenText
    \/ GetActivityType
    \/ GetDistance

InitClassify == InitFrom(ClassifyInputs)
SpecClassify == InitClassify /\ [][Next]_vars

InitDistance == InitFrom(DistanceInputs)
SpecDistance == InitDistance /\ [][Next]_vars

InitActivity == InitFrom(ActivityInputs)
SpecActivity == InitActivity /\ [][Next]_vars

InitWritten == InitFrom(WrittenInputs)
SpecWritten == InitWritten /\ [][Next]_vars

InitNormalize == InitFrom(NormalizeInputs)
SpecNormalize == InitNormalize /\ [][Next]_vars

Init == InitFrom(ClassifyInputs \cup DistanceInputs \cup ActivityInputs
                    \cup WrittenInputs \cup NormalizeInputs)
Spec == Init /\ [][Next]_vars

(***************************************************************************)
(* The search page (descriptions.js): its script polls for the feed, then  *)
(* registers the listener of the search box; every input event sets the    *)
(* value of the box and, once the listener is registered, runs search.     *)
(***************************************************************************)
\* the callback of setInterval (descriptions.js 14-59)
checkTweets ==
    /\ ~listener
    /\ IF RUNKEEPER_TWEETS = <<>>
       THEN UNCHANGED <<userWritten, listener>>
       ELSE /\ userWritten' = SelectSeq(
                    [k \in 1..Len(RUNKEEPER_TWEETS) |-> TweetConstructor(RUNKEEPER_TWEETS[k])],
                    written)
            /\ listener' = TRUE
    /\ UNCHANGED <<RUNKEEPER_TWEETS, input, countEl, textEl, tbody, searched>>
    /\ UNCHANGED <<tweet_text, text, call, retString, retBoolean, retNumber>>

\* matches.map((t, i) => t.getHTMLTableRow(i)).join("")
rowsHtml(matches) ==
    LET F[k \in 0..Len(matches)] ==
            IF k = 0 THEN <<>> ELSE F[k - 1] \o getHTMLTableRow(matches[k], k - 1)
    IN  F[Len(matches)]

\* userWritten.filter((t) => t.writtenText.toLowerCase().includes(qLower))
filterMatches(qLower) ==
    LET Test(t) == includes(toLowerCase(writtenText(t)), qLower)
    IN  SelectSeq(userWritten, Test)

\* function search(queryRaw) (descriptions.js 35-55)
search(queryRaw) ==
    LET q == trim(IF queryRaw = Null THEN <<>> ELSE queryRaw)
        matches == filterMatches(toLowerCase(q))
    IN  IF q = <<>>
        THEN /\ countEl' = <<"0">>
             /\ textEl' = <<>>
             /\ tbody' = <<>>
        ELSE /\ countEl' = NumberToString(Len(matches))
             /\ textEl' = q
             /\ tbody' = rowsHtml(matches)

\* an input event of #textFilter: (e) => search(e.target.value), if registered
OnInput ==
    \E v \in Queries :
        /\ input' = v
        /\ IF listener THEN search(v) ELSE UNCHANGED <<countEl, textEl, tbody>>
        /\ searched' = listener
        /\ UNCHANGED <<RUNKEEPER_TWEETS, userWritten, listener>>
        /\ UNCHANGED <<tweet_text, text, call, retString, retBoolean, retNumber>>

NextPage ==
    \/ checkTweets
    \/ OnInput

InitSearch ==
    /\ \E feed \in Feeds : InitPage(feed)
    /\ tweet_text = Null
    /\ text = TweetConstructor(tweet_text)
    /\ call = "new"
    /\ retString = <<>>
    /\ retBoolean = FALSE
    /\ retNumber = Rat(0, 1)

SpecSearch == InitSearch /\ [][NextPage]_vars


(***************************************************************************)
(* Properties.  Phrases are looked for in the lower-cased text.            *)
(***************************************************************************)
lower == toLowerCase(text)

\* w is what s holds from position i on
At(s, i, w) == i >= 1 /\ i + Len(w) - 1 <= Len(s) /\ SubSeq(s, i, i + Len(w) - 1) = w

\* w occurs in s
Occurs(s, w) == \E i \in 1..Len(s) : At(s, i, w)

\* w occurs in s with no word character right before it or right after it
OccursAsWord(s, w) ==
    \E i \in 1..Len(s) :
        /\ At(s, i, w)
        /\ i = 1 \/ ~IsWordChar(s[i - 1])
        /\ i + Len(w) > Len(s) \/ ~IsWordChar(s[i + Len(w)])

\* s begins with w
Begins(s, w) == At(s, 1, w)

Categories == {<<"c","o","m","p","l","e","t","e","d","_","e","v","e","n","t">>, <<"l","i","v","e","_","e","v","e","n","t">>, <<"a","c","h","i","e","v","e","m","e","n","t">>, <<"m","i","s","c","e","l","l","a","n","e","o","u","s">>}

\* a "completed" phrase occurs somewhere in the text
HasCompletedPhrase(s) ==
    Occurs(s, <<"j","u","s","t"," ","c","o","m","p","l","e","t","e","d">>) \/ Occurs(s, <<"c","o","m","p","l","e","t","e","d"," ","a">>) \/ Occurs(s, <<"c","o","m","p","l","e","t","e","d"," ","a","n">>)

\* a whole-word "is running" (biking, walking, skiing, swimming) phrase occurs
HasLivePhrase(s) ==
    \E v \in {<<"i","s"," ","r","u","n","n","i","n","g">>, <<"i","s"," ","b","i","k","i","n","g">>, <<"i","s"," ","w","a","l","k","i","n","g">>, <<"i","s"," ","s","k","i","i","n","g">>, <<"i","s"," ","s","w","i","m","m","i","n","g">>} :
        OccursAsWord(s, v)

\* rule 1 of the classifier as the design states it
Rule1(s) ==
    \/ Begins(s, <<"j","u","s","t"," ","c","o","m","p","l","e","t","e","d">>)
    \/ Begins(s, <<"i"," ","j","u","s","t"," ">>)
    \/ Occurs(s, <<" ","c","o","m","p","l","e","t","e","d"," ","a"," ">>)
    \/ Occurs(s, <<" ","c","o","m","p","l","e","t","e","d"," ","a","n"," ">>)

\* rule 2
Rule2(s) == Begins(s, <<"j","u","s","t"," ","p","o","s","t","e","d">>) \/ HasLivePhrase(s)

\* rule 3
Rule3(s) ==
    \E w \in {<<"n","e","w"," ","p","e","r","s","o","n","a","l"," ","r","e","c","o","r","d">>, <<"p","r","!">>, <<"a","c","h","i","e","v","e","d">>, <<"s","e","t"," ","a"," ","g","o","a","l">>, <<"a","c","h","i","e","v","e","m","e","n","t">>} :
        Occurs(s, w)

\* C1 as claimed: a text with a "completed" phrase and an "is running" phrase,
\* wherever the two occur, is a completed_event
C1_AnyCompletedPhraseWins ==
    (call = "source" /\ HasCompletedPhrase(lower) /\ HasLivePhrase(lower))
        => retString = <<"c","o","m","p","l","e","t","e","d","_","e","v","e","n","t">>

\* C1 amended: a text that matches rule 1 (it begins with "just completed" or
\* "i just ", or holds " completed a " or " completed an " between spaces) and
\* holds a whole-word "is running" phrase is a completed_event, never a
\* live_event, wherever the two occur
C1_CompletedBeforeLive ==
    (call = "source" /\ Rule1(lower) /\ HasLivePhrase(lower))
        => retString = <<"c","o","m","p","l","e","t","e","d","_","e","v","e","n","t">>

\* a text whose "is running" phrase comes before its " completed a "
C1_Witness ==
    /\ call = "source"
    /\ retString = <<"c","o","m","p","l","e","t","e","d","_","e","v","e","n","t">>
    /\ HasLivePhrase(lower)
    /\ ~Begins(lower, <<"j","u","s","t"," ","c","o","m","p","l","e","t","e","d">>)
    /\ \E i, j \in 1..Len(lower) :
        /\ i < j
        /\ At(lower, i, <<"i","s"," ","r","u","n","n","i","n","g">>)
        /\ At(lower, j, <<" ","c","o","m","p","l","e","t","e","d"," ","a"," ">>)

\* C9: source returns one of the four categories for every input, the empty
\* and the null text included, and miscellaneous exactly when none of the
\* rules 1 to 3 matches
C9_ClassifyTotal ==
    call = "source" =>
        /\ retString \in Categories
        /\ retString = <<"m","i","s","c","e","l","l","a","n","e","o","u","s">> <=> ~(Rule1(lower) \/ Rule2(lower) \/ Rule3(lower))

\* the null text, classified
C9_Witness == call = "source" /\ tweet_text = Null /\ retString = <<"m","i","s","c","e","l","l","a","n","e","o","u","s">>

(***************************************************************************)
(* Distances: exact rationals, compared by cross-multiplication.           *)
(***************************************************************************)
RatEq(a, b) == a.num * b.den = b.num * a.den

\* | a - m/1000 | <= 1/1000
WithinMilli(a, m) ==
    LET d == a.num * 1000 - m * a.den
    IN  d <= a.den /\ -d <= a.den

\* N and its decimal numeral, for the texts of C2
Numerals == {[n |-> 3, s |-> <<"3">>], [n |-> 10, s |-> <<"1","0">>]}

\* C2 as claimed: "completed a N km run" has distance N/1.609 (for 10: 6.214
\* within 0.001) and "completed a N mile run" has distance N
C2_BareTextDistance ==
    call = "distance" =>
        \A x \in Numerals :
            /\ lower = <<"c","o","m","p","l","e","t","e","d"," ","a"," ">> \o x.s \o <<" ","k","m"," ","r","u","n">>
                => /\ RatEq(retNumber, Rat(x.n * 1000, 1609))
                   /\ x.n = 10 => WithinMilli(retNumber, 6214)
            /\ lower = <<"c","o","m","p","l","e","t","e","d"," ","a"," ">> \o x.s \o <<" ","m","i","l","e"," ","r","u","n">>
                => RatEq(retNumber, Rat(x.n, 1))

\* C2 amended: "Just completed a N km run" has distance N/1.609 (for 10: 6.215
\* within 0.001) and "Just completed a N mile run" has distance exactly N; the
\* bare texts "completed a N km run" and "completed a N mile run" are not
\* completed events and have distance 0
C2_CompletedTextDistance ==
    call = "distance" =>
        \A x \in Numerals :
            /\ lower = <<"j","u","s","t"," ","c","o","m","p","l","e","t","e","d"," ","a"," ">> \o x.s \o <<" ","k","m"," ","r","u","n">>
                => /\ RatEq(retNumber, Rat(x.n * 1000, 1609))
                   /\ x.n = 10 => WithinMilli(retNumber, 6215) /\ ~WithinMilli(retNumber, 6214)
            /\ lower = <<"j","u","s","t"," ","c","o","m","p","l","e","t","e","d"," ","a"," ">> \o x.s \o <<" ","m","i","l","e"," ","r","u","n">>
                => retNumber = Rat(x.n, 1)
            /\ lower \in {<<"c","o","m","p","l","e","t","e","d"," ","a"," ">> \o x.s \o <<" ","k","m"," ","r","u","n">>,
                          <<"c","o","m","p","l","e","t","e","d"," ","a"," ">> \o x.s \o <<" ","m","i","l","e"," ","r","u","n">>}
                => retNumber = Rat(0, 1)

\* the distance of "Just completed a 10 km run"
C2_Witness ==
    /\ call = "distance"
    /\ lower = <<"j","u","s","t"," ","c","o","m","p","l","e","t","e","d"," ","a"," ","1","0"," ","k","m"," ","r","u","n">>
    /\ retNumber = Rat(10000, 1609)

\* t[i..j] is a non-empty run of characters of class C
AllOf(t, i, j, C(_)) == i <= j /\ \A k \in i..j : C(t[k])

\* the matches of "a decimal number, at least minSpaces white space, one of
\* units as a whole word": where each begins and the number it holds
UnitMatches(t, units, minSpaces) ==
    UNION { UNION { UNION { UNION {
        { [at |-> i,
           val |-> IF q = p THEN Rat(ToInt(SubSeq(t, i, p - 1)), 1)
                   ELSE Rat(ToInt(SubSeq(t, i, p - 1)) * Pow10(q - p - 1)
                                + ToInt(SubSeq(t, p + 1, q - 1)), Pow10(q - p - 1))]
          : u \in {v \in units : /\ At(t, r, v)
                                 /\ r + Len(v) > Len(t) \/ ~IsWordChar(t[r + Len(v)])} }
        : r \in {r \in (q + minSpaces)..(Len(t) + 1) : r = q \/ AllOf(t, q, r - 1, IsSpace)} }
        : q \in {p} \cup {q \in (p + 2)..(Len(t) + 1) : t[p] = "." /\ AllOf(t, p + 1, q - 1, IsDigit)} }
        : p \in {p \in (i + 1)..(Len(t) + 1) : AllOf(t, i, p - 1, IsDigit)} }
        : i \in 1..Len(t) }

\* the matches that begin first
Leftmost(ms) == {m \in ms : \A n \in ms : m.at <= n.at}

\* the reference rule of C10 for a completed event: miles first, then
\* kilometres over 1.609, then 0; d is what the rule gives
IsReferenceDistance(t, d, minSpaces) ==
    LET mi == Leftmost(UnitMatches(t, MileUnits, minSpaces))
        km == Leftmost(UnitMatches(t, KmUnits, 0))
    IN  IF mi # {} THEN \A m \in mi : d = m.val
        ELSE IF km # {} THEN \A m \in km : d = Rat(m.val.num * 1000, m.val.den * 1609)
        ELSE d = Rat(0, 1)

\* C10 as claimed: the number must be separated from mi, mile or miles by
\* white space to be a mile match
C10_MilesNeedSpace ==
    (call = "distance" /\ Rule1(lower)) => IsReferenceDistance(lower, retNumber, 1)

\* C10 amended: the distance of a completed event is the first decimal number
\* followed by optional white space and mi, mile or miles ending at a word
\* boundary (even when a km figure comes earlier; "3mi" is a mile match);
\* else the first decimal number followed by optional white space and km,
\* kilometer or kilometers, divided by 1.609; else 0
C10_DistanceRule ==
    (call = "distance" /\ Rule1(lower)) => IsReferenceDistance(lower, retNumber, 0)

\* a mile figure taken although a km figure comes first
C10_Witness ==
    /\ call = "distance"
    /\ Rule1(lower)
    /\ \E m \in UnitMatches(lower, MileUnits, 0), k \in UnitMatches(lower, KmUnits, 0) :
        k.at < m.at /\ retNumber = m.val

(***************************************************************************)
(* Activity types.  The table of the design (4.4), in its order.           *)
(***************************************************************************)
AliasTable == <<
    <<<<"r","u","n","n","i","n","g">>,    {<<"r","u","n">>, <<"j","o","g">>, <<"j","o","g","g","i","n","g">>}>>,
    <<<<"w","a","l","k","i","n","g">>,    {<<"w","a","l","k">>, <<"h","i","k","e">>, <<"h","i","k","i","n","g">>}>>,
    <<<<"c","y","c","l","i","n","g">>,    {<<"b","i","k","e">>, <<"b","i","k","e","d">>, <<"b","i","k","i","n","g">>, <<"r","i","d","e">>, <<"r","o","d","e">>, <<"c","y","c","l","i","n","g">>}>>,
    <<<<"s","w","i","m","m","i","n","g">>,   {<<"s","w","i","m">>, <<"s","w","a","m">>, <<"s","w","i","m","m","i","n","g">>}>>,
    <<<<"e","l","l","i","p","t","i","c","a","l">>, {<<"e","l","l","i","p","t","i","c","a","l">>}>>,
    <<<<"r","o","w","i","n","g">>,     {<<"r","o","w">>, <<"r","o","w","i","n","g">>}>>,
    <<<<"y","o","g","a">>,       {<<"y","o","g","a">>}>> >>

Labels == {AliasTable[k][1] : k \in 1..Len(AliasTable)}

\* the places in the table of the labels that have an alias in s as a whole word
LabelsIn(s) == {k \in 1..Len(AliasTable) : \E a \in AliasTable[k][2] : OccursAsWord(s, a)}

\* the words that follow "completed a " or "completed an " in s
WordsAfterCompleted(s) ==
    {SubSeq(s, j, k) : <<j, k>> \in
        {<<j, k>> \in (1..Len(s)) \X (1..Len(s)) :
            /\ At(s, j - 12, <<"c","o","m","p","l","e","t","e","d"," ","a"," ">>) \/ At(s, j - 13, <<"c","o","m","p","l","e","t","e","d"," ","a","n"," ">>)
            /\ AllOf(s, j, k, IsWordChar)
            /\ k = Len(s) \/ ~IsWordChar(s[k + 1])}}

\* C3: a post that is not a completed_event has activityType "unknown" and
\* distance 0, whatever activity words and distance figures it holds
C3_NotCompletedIsUnknown ==
    source(text) # <<"c","o","m","p","l","e","t","e","d","_","e","v","e","n","t">> =>
        /\ call = "activityType" => retString = <<"u","n","k","n","o","w","n">>
        /\ call = "distance" => retNumber = Rat(0, 1)

\* the distance of a post of another category that holds an activity word
\* and a mile figure
C3_Witness ==
    /\ call = "distance"
    /\ source(text) # <<"c","o","m","p","l","e","t","e","d","_","e","v","e","n","t">>
    /\ LabelsIn(lower) # {}
    /\ UnitMatches(lower, MileUnits, 0) # {}
    /\ retNumber = Rat(0, 1)

\* C6 as claimed: activityType is a label of the table or "unknown"
C6_LabelOrUnknown ==
    call = "activityType" => retString \in Labels \cup {<<"u","n","k","n","o","w","n">>}

\* C6 amended: activityType is a label of the table or "unknown" or, for a
\* completed event with no alias of the table as a whole word, the word that
\* follows "completed a " or "completed an " in the lower-cased text, as it is
C6_LabelUnknownOrFallback ==
    call = "activityType" =>
        \/ retString \in Labels \cup {<<"u","n","k","n","o","w","n">>}
        \/ /\ Rule1(lower)
           /\ LabelsIn(lower) = {}
           /\ retString \in WordsAfterCompleted(lower)

\* an activityType that is neither a label nor "unknown"
C6_Witness ==
    /\ call = "activityType"
    /\ retString \notin Labels \cup {<<"u","n","k","n","o","w","n">>}
    /\ retString \in WordsAfterCompleted(lower)

\* C8: for a completed event with aliases of two or more labels as whole
\* words, activityType is the label that comes first in the table, wherever
\* the aliases stand in the text
C8_FirstLabelInTableOrder ==
    (call = "activityType" /\ Rule1(lower) /\ Cardinality(LabelsIn(lower)) >= 2)
        => \E k \in LabelsIn(lower) :
            /\ \A j \in LabelsIn(lower) : k <= j
            /\ retString = AliasTable[k][1]

\* running wins although "bike" stands before "run" in the text
C8_Witness ==
    /\ call = "activityType"
    /\ retString = <<"r","u","n","n","i","n","g">>
    /\ \E i, j \in 1..Len(lower) :
        /\ i < j
        /\ At(lower, i, <<" ","b","i","k","e">>)
        /\ At(lower, j, <<" ","r","u","n">>)
        /\ \A k \in 1..(j - 1) : ~At(lower, k, <<" ","r","u","n">>)
    /\ 3 \in LabelsIn(lower)

(***************************************************************************)
(* The normalizer and the detector of user-written text.                   *)
(***************************************************************************)
\* C4: the normalizer applied to its own output (as the text of a new Tweet)
\* returns that output
C4_NormalizeIdempotent ==
    call = "stripped" => stripped(TweetConstructor(retString)) = retString

\* the normalized, lower-cased text
normalized == toLowerCase(stripped(text))

\* the template vocabulary of the design (4.3)
Vocabulary == {
    <<"j","u","s","t"," ","c","o","m","p","l","e","t","e","d">>, <<"j","u","s","t"," ","p","o","s","t","e","d">>, <<"a","c","t","i","v","i","t","y">>, <<"w","o","r","k","o","u","t">>, <<"w","i","t","h"," ","r","u","n","k","e","e","p","e","r">>,
    <<"c","h","e","c","k"," ","i","t"," ","o","u","t">>, <<"d","i","s","t","a","n","c","e">>, <<"t","i","m","e">>, <<"p","a","c","e">>, <<"c","o","m","p","l","e","t","e","d"," ","a">>, <<"c","o","m","p","l","e","t","e","d"," ","a","n">>,
    <<"p","o","s","t","e","d"," ","a">>, <<"p","o","s","t","e","d"," ","a","n">>, <<"r","u","n">>, <<"w","a","l","k">>, <<"b","i","k","e">>, <<"r","i","d","e">>, <<"s","w","i","m">>,
    <<"h","i","k","e">>, <<"e","l","l","i","p","t","i","c","a","l">> }

Punctuation == {"!", "\"", "#", "'", "(", ")", ",", "-", ".", "/", ":", ";", "?", "@", "_"}

\* s is empty or made up only of tokens of the vocabulary with separators
\* (characters of class Sep) between them, before them and after them
FullyTemplated(s, Sep(_)) ==
    LET F[i \in 1..(Len(s) + 1)] ==
            LET j == i + RunLen(s, i, Sep)
            IN  \/ j > Len(s)
                \/ \E w \in Vocabulary :
                    /\ At(s, j, w)
                    /\ \/ j + Len(w) > Len(s)
                       \/ Sep(s[j + Len(w)]) /\ F[j + Len(w)]
    IN  F[1]

\* the number of tokens of the vocabulary s holds as whole words
Tokens(s) == Cardinality({<<i, w>> \in (1..Len(s)) \X Vocabulary : WordLen(s, i, w) > 0})

\* C5 as claimed: a post whose normalized text is empty or made up only of
\* template tokens separated by white space or punctuation is not written and
\* has the empty writtenText
C5_TemplatedIsNotWritten ==
    FullyTemplated(normalized, LAMBDA c : IsSpace(c) \/ c \in Punctuation) =>
        /\ call = "written" => retBoolean = FALSE
        /\ call = "writtenText" => retString = <<>>

\* C5 amended: the same, the separators being the characters that are not
\* word characters (white space and punctuation other than the underscore,
\* which joins the tokens it stands between into one word)
C5_TemplatedIsNotWrittenNoUnderscore ==
    FullyTemplated(normalized, LAMBDA c : ~IsWordChar(c)) =>
        /\ call = "written" => retBoolean = FALSE
        /\ call = "writtenText" => retString = <<>>

\* two tokens or more with punctuation between them, found not written
C5_Witness ==
    /\ call = "written"
    /\ retBoolean = FALSE
    /\ FullyTemplated(normalized, LAMBDA c : ~IsWordChar(c))
    /\ Tokens(normalized) >= 2
    /\ Occurs(normalized, <<",">>)

\* the tokens of the vocabulary in the order in which they are removed
RemovalOrder == <<
    <<"j","u","s","t"," ","c","o","m","p","l","e","t","e","d">>, <<"j","u","s","t"," ","p","o","s","t","e","d">>, <<"a","c","t","i","v","i","t","y">>, <<"w","o","r","k","o","u","t">>, <<"w","i","t","h"," ","r","u","n","k","e","e","p","e","r">>,
    <<"c","h","e","c","k"," ","i","t"," ","o","u","t">>, <<"d","i","s","t","a","n","c","e">>, <<"t","i","m","e">>, <<"p","a","c","e">>, <<"c","o","m","p","l","e","t","e","d"," ","a">>, <<"c","o","m","p","l","e","t","e","d"," ","a","n">>,
    <<"p","o","s","t","e","d"," ","a">>, <<"p","o","s","t","e","d"," ","a","n">>, <<"r","u","n">>, <<"w","a","l","k">>, <<"b","i","k","e">>, <<"r","i","d","e">>, <<"s","w","i","m">>,
    <<"h","i","k","e">>, <<"e","l","l","i","p","t","i","c","a","l">> >>

\* the places of s that w covers as a whole word, none of them in gone
CoveredBy(s, w, gone) ==
    UNION {i..(i + Len(w) - 1) : i \in
        {i \in 1..Len(s) :
            /\ At(s, i, w)
            /\ i = 1 \/ ~IsWordChar(s[i - 1])
            /\ i + Len(w) > Len(s) \/ ~IsWordChar(s[i + Len(w)])
            /\ (i..(i + Len(w) - 1)) \cap gone = {}}}

\* the places of s the tokens cover, token after token
Removed(s) ==
    LET F[k \in 0..Len(RemovalOrder), gone \in SUBSET (1..Len(s))] ==
            IF k = Len(RemovalOrder) THEN gone
            ELSE F[k + 1, gone \cup CoveredBy(s, RemovalOrder[k + 1], gone)]
    IN  F[0, {}]

\* the number of letters and digits of s outside the tokens
Residue(s) == Cardinality({i \in (1..Len(s)) \ Removed(s) : IsLowerAlnum(s[i])})

\* C7: written is true exactly when the normalized, lower-cased text keeps 3
\* letters or digits or more once every template token is removed from it as
\* a whole word: 2 give false, 3 give true
C7_WrittenThreshold ==
    call = "written" => (retBoolean <=> Residue(normalized) >= 3)

\* a text that keeps exactly 3 letters or digits beside a token
C7_Witness ==
    /\ call = "written"
    /\ retBoolean = TRUE
    /\ Residue(normalized) = 3
    /\ Removed(normalized) # {}

\* and one that keeps exactly 2
C7_WitnessBelow ==
    /\ call = "written"
    /\ retBoolean = FALSE
    /\ Residue(normalized) = 2
    /\ Removed(normalized) # {}

(***************************************************************************)
(* The search table.  The table is read back from the markup of            *)
(* #tweetTable: its rows are the tr elements, their cells the td elements. *)
(***************************************************************************)
\* the places of html where tag begins
Tags(html, tag) == {i \in 1..Len(html) : At(html, i, tag)}

\* the k-th smallest element of S
Kth(S, k) == CHOOSE x \in S : Cardinality({y \in S : y < x}) = k - 1

\* the number of rows of the table
RowCount(html) == Cardinality(Tags(html, <<"<","t","r",">">>))

\* the content of the c-th cell of the k-th row of the table
Cell(html, k, c) ==
    LET trs == Tags(html, <<"<","t","r",">">>)
        from == Kth(trs, k)
        to == IF k < Cardinality(trs) THEN Kth(trs, k + 1) - 1 ELSE Len(html)
        i == Kth({p \in Tags(html, <<"<","t","d",">">>) : from < p /\ p <= to}, c)
        j == Kth({p \in Tags(html, <<"<","/","t","d",">">>) : p > i}, 1)
    IN  SubSeq(html, i + 4, j - 1)

\* s is the decimal numeral of a natural number
IsNumeral(s) ==
    /\ s # <<>>
    /\ \A i \in 1..Len(s) : IsDigit(s[i])
    /\ Len(s) > 1 => s[1] # "0"

\* the trimmed query of the search box
query == trim(input)

\* the k-th row of the table shows the post of text raw: a user-written post
\* whose writtenText holds the trimmed query, case put aside
RowShows(k, raw) ==
    LET t == TweetConstructor(raw)
    IN  /\ written(t)
        /\ Occurs(toLowerCase(writtenText(t)), toLowerCase(query))
        /\ \/ Cell(tbody, k, 3) = writtenText(t)
           \/ Begins(Cell(tbody, k, 3), writtenText(t) \o <<" ","<","a"," ","h","r","e","f","=">>)

\* the count shown is the number of rows, the rows are numbered 1..count,
\* every row shows a matching user-written post, and a blank query leaves
\* count 0, no search text and no row
TableConsistent ==
    /\ IsNumeral(countEl)
    /\ ToInt(countEl) = RowCount(tbody)
    /\ \A k \in 1..RowCount(tbody) :
        /\ IsNumeral(Cell(tbody, k, 1))
        /\ ToInt(Cell(tbody, k, 1)) = k
        /\ \E j \in 1..Len(RUNKEEPER_TWEETS) : RowShows(k, RUNKEEPER_TWEETS[j])
    /\ query = <<>> => countEl = <<"0">> /\ textEl = <<>> /\ tbody = <<>>

C11_WitnessBlank ==
    /\ searched
    /\ input = <<" "," ">>
    /\ countEl = <<"0">>
    /\ tbody = <<>>

=============================================================================
